---- MODULE Spec2Model ----
(***************************************************************************)
(* Model of lld's COFF map-file writer (COFF/MapFile.cpp, the /lldmap      *)
(* option).  The layout (output sections, chunks, object files, symbols)   *)
(* is read-only input; writeMapFile creates a temporary file next to the   *)
(* destination, streams the report rows into it (writeMapFile2 and         *)
(* writeSectionChunk), closes the stream and renames the temporary file    *)
(* onto the destination.                                                   *)
(*                                                                         *)
(* A row of the report is a record: the three numeric columns and the      *)
(* sequence of name columns, one per nesting depth (the deeper writers     *)
(* call the shallower one with an empty name and append their own).        *)
(***************************************************************************)
EXTENDS Integers, Sequences, FiniteSets, TLC

VARIABLES layout, mapFile, fs, pc, EC, secIdx, chunkIdx, PrevName,
          osError, seen, run, dest0, prevReport

vars == <<layout, mapFile, fs, pc, EC, secIdx, chunkIdx, PrevName,
          osError, seen, run, dest0, prevReport>>

----------------------------------------------------------------------------
(* Bounds of the model. *)

MaxSecs == 2

MaxChunks == 3

MaxRuns == 2

----------------------------------------------------------------------------
(* The layout handed over by the linker. *)

PageSize == 4096

NoFile == "<null>"

(* The chunks the linker can place.  1 and 2 are two distinct SectionChunks
   with the same section name and the same object file, 3 belongs to
   another file, 4 is a SectionChunk whose File is null, 5 is a chunk that
   is not a SectionChunk (dyn_cast<SectionChunk> yields null).  Chunk 1,
   its file and its symbols are those of the example in the header comment
   of MapFile.cpp (0x00201000 = 2101248). *)
ChunkIds == 1..5

Chunks ==
  <<[isSectionChunk |-> TRUE,  name |-> ".text", rva |-> 2101248, size |-> 14, align |-> 4,  File |-> "test.o"],
    [isSectionChunk |-> TRUE,  name |-> ".text", rva |-> 2101264, size |-> 7,  align |-> 16, File |-> "test.o"],
    [isSectionChunk |-> TRUE,  name |-> ".data", rva |-> 2101280, size |-> 8,  align |-> 8,  File |-> "b.obj"],
    [isSectionChunk |-> TRUE,  name |-> ".text", rva |-> 2101296, size |-> 5,  align |-> 1,  File |-> NoFile],
    [isSectionChunk |-> FALSE, name |-> "",      rva |-> 2101312, size |-> 6,  align |-> 2,  File |-> NoFile]>>

(* File->getSymbols(), in the file's order.  isDefinedRegular is the result
   of dyn_cast<DefinedRegular>; chunk is DR->getChunk() (a chunk identity). *)
Symbols ==
  [f \in {"test.o", "b.obj"} |->
     IF f = "test.o"
     THEN <<[name |-> "local",  isDefinedRegular |-> TRUE,  chunk |-> 1, isSectionDefinition |-> FALSE, rva |-> 2101262],
            [name |-> "g",      isDefinedRegular |-> TRUE,  chunk |-> 2, isSectionDefinition |-> FALSE, rva |-> 2101265],
            [name |-> ".text",  isDefinedRegular |-> TRUE,  chunk |-> 1, isSectionDefinition |-> TRUE,  rva |-> 2101248],
            [name |-> "printf", isDefinedRegular |-> FALSE, chunk |-> 0, isSectionDefinition |-> FALSE, rva |-> 0],
            [name |-> "f(int)", isDefinedRegular |-> TRUE,  chunk |-> 1, isSectionDefinition |-> FALSE, rva |-> 2101253]>>
     ELSE <<[name |-> ".data",  isDefinedRegular |-> TRUE,  chunk |-> 3, isSectionDefinition |-> TRUE,  rva |-> 2101280],
            [name |-> "abs",    isDefinedRegular |-> FALSE, chunk |-> 0, isSectionDefinition |-> FALSE, rva |-> 0]>>]

IsInjective(s) == \A i, j \in DOMAIN s : s[i] = s[j] => i = j

(* The chunks of the image in address order: a list of distinct chunks. *)
ChunkLists ==
  {s \in UNION {[1..n -> ChunkIds] : n \in 0..MaxChunks} : IsInjective(s)}

(* The ways of cutting a list of k chunks into n consecutive sections
   (ends[i] is the position of the last chunk of section i; a section may
   be empty). *)
Cuts(k, n) ==
  {ends \in [1..n -> 0..k] :
     /\ \A i \in 1..n : i < n => ends[i] <= ends[i + 1]
     /\ IF n = 0 THEN k = 0 ELSE ends[n] = k}

SecName(i) == IF i = 1 THEN ".text" ELSE IF i = 2 THEN ".data" ELSE ".rdata"

OutputSection(i, chunks) ==
  [name |-> SecName(i), rva |-> (512 + i) * PageSize, vsize |-> 20 + Len(chunks),
   chunks |-> chunks]

(* The OutputSections argument: at most MaxSecs sections holding at most
   MaxChunks chunks in all, every chunk in one section only. *)
Layouts ==
  UNION {UNION {{[i \in 1..n |->
                    OutputSection(i, SubSeq(s, (IF i = 1 THEN 0 ELSE ends[i - 1]) + 1, ends[i]))] :
                  ends \in Cuts(Len(s), n)} :
                n \in 0..MaxSecs} :
         s \in ChunkLists}

----------------------------------------------------------------------------
(* The file system: the destination path and the temporary path. *)

MapFilePath == "out.map"

TempPath == "out.map.tmp"

Absent == [exists |-> FALSE, data |-> <<>>]

File(rows) == [exists |-> TRUE, data |-> rows]

OldRow == [kind |-> "old", addr |-> 0, size |-> 0, align |-> 0, cols |-> <<>>]

OldFile == File(<<OldRow>>)

----------------------------------------------------------------------------
(* Line formatter. *)

HeaderRow ==
  [kind |-> "header", addr |-> 0, size |-> 0, align |-> 0,
   cols |-> <<"Out", "In", "File", "Symbol">>]

writeOutSecLine(Address, Size, Align, Name) ==
  [kind |-> "row", addr |-> Address, size |-> Size, align |-> Align,
   cols |-> <<Name>>]

writeInSecLine(Address, Size, Align, Name) ==
  LET r == writeOutSecLine(Address, Size, Align, "")
  IN  [r EXCEPT !.cols = Append(@, Name)]

writeFileLine(Address, Size, Align, Name) ==
  LET r == writeInSecLine(Address, Size, Align, "")
  IN  [r EXCEPT !.cols = Append(@, Name)]

writeSymbolLine(Address, Size, Name) ==
  LET r == writeFileLine(Address, Size, 0, "")
  IN  [r EXCEPT !.cols = Append(@, Name)]

----------------------------------------------------------------------------
(* The text of a row, as the formatter functions stream it into OS (without
   the newline that the caller appends). *)

HexDigit(d) ==
  <<"0", "1", "2", "3", "4", "5", "6", "7", "8", "9",
    "a", "b", "c", "d", "e", "f">>[d + 1]

RECURSIVE HexDigits(_)
HexDigits(n) ==
  IF n < 16 THEN HexDigit(n) ELSE HexDigits(n \div 16) \o HexDigit(n % 16)

RECURSIVE Fill(_, _)
Fill(ch, n) == IF n <= 0 THEN "" ELSE ch \o Fill(ch, n - 1)

(* left_justify(Str, Width): Str followed by blanks up to Width. *)
left_justify(Str, Width) == Str \o Fill(" ", Width - Len(Str))

(* format_hex_no_prefix(N, Width): lower-case digits, zero-padded. *)
format_hex_no_prefix(N, Width) ==
  Fill("0", Width - Len(HexDigits(N))) \o HexDigits(N)

(* format("%5x ", Align): hexadecimal, right-aligned in 5 columns, then a
   blank.  %x takes the low 32 bits of the argument; every alignment of the
   model is below 2^31. *)
format_5x(Align) ==
  Fill(" ", 5 - Len(HexDigits(Align))) \o HexDigits(Align) \o " "

HeaderLine ==
  left_justify("Address", 8) \o " " \o left_justify("Size", 8) \o " "
    \o left_justify("Align", 5) \o " " \o left_justify("Out", 7) \o " "
    \o left_justify("In", 7) \o " " \o left_justify("File", 7) \o " Symbol"

(* The name columns: writeOutSecLine appends left_justify(Name, 7), every
   deeper writer appends ' ' and left_justify(Name, 7). *)
RECURSIVE NameColumns(_, _)
NameColumns(cols, k) ==
  IF k > Len(cols) THEN ""
  ELSE (IF k = 1 THEN "" ELSE " ") \o left_justify(cols[k], 7)
       \o NameColumns(cols, k + 1)

LineText(row) ==
  IF row.kind = "header" THEN HeaderLine
  ELSE format_hex_no_prefix(row.addr, 8) \o " "
       \o format_hex_no_prefix(row.size, 8) \o " "
       \o format_5x(row.align) \o NameColumns(row.cols, 1)

(* The lines of a file. *)
Text(rows) == [k \in DOMAIN rows |-> LineText(rows[k])]

----------------------------------------------------------------------------
(* writeSectionChunk: the rows of one SectionChunk and the new PrevName. *)

NameChanged_Always(Name, Prev) == TRUE

NameChanged(Name, Prev) == Name # Prev

IsShown_ByName(Sym, SC) ==
  /\ Sym.isDefinedRegular
  /\ Chunks[Sym.chunk].name = Chunks[SC].name
  /\ ~Sym.isSectionDefinition

IsShown_AnyChunk(Sym, SC) ==
  /\ Sym.isDefinedRegular
  /\ ~Sym.isSectionDefinition

IsShown(Sym, SC) ==
  /\ Sym.isDefinedRegular
  /\ Sym.chunk = SC
  /\ ~Sym.isSectionDefinition

SymbolRow_ZeroSize(Sym, SC) == writeSymbolLine(Sym.rva, 0, Sym.name)

SymbolRow(Sym, SC) == writeSymbolLine(Sym.rva, Chunks[SC].size, Sym.name)

RECURSIVE SymbolRows_Reversed(_, _, _)
SymbolRows_Reversed(Syms, k, SC) ==
  IF k > Len(Syms) THEN <<>>
  ELSE SymbolRows_Reversed(Syms, k + 1, SC)
       \o (IF IsShown(Syms[k], SC) THEN <<SymbolRow(Syms[k], SC)>> ELSE <<>>)

RECURSIVE SymbolRows(_, _, _)
SymbolRows(Syms, k, SC) ==
  IF k > Len(Syms) THEN <<>>
  ELSE (IF IsShown(Syms[k], SC) THEN <<SymbolRow(Syms[k], SC)>> ELSE <<>>)
       \o SymbolRows(Syms, k + 1, SC)

HasFile(SC) == Chunks[SC].File # NoFile

FileRows(SC) ==
  IF ~HasFile(SC) THEN <<>>
  ELSE <<writeFileLine(Chunks[SC].rva, Chunks[SC].size, Chunks[SC].align,
                       Chunks[SC].File)>>
       \o SymbolRows(Symbols[Chunks[SC].File], 1, SC)

writeSectionChunk_FileDedup(SC, Prev) ==
  LET Name == Chunks[SC].name
  IN  IF NameChanged(Name, Prev)
      THEN [rows |-> <<writeInSecLine(Chunks[SC].rva, Chunks[SC].size,
                                      Chunks[SC].align, Name)>> \o FileRows(SC),
            prev |-> Name]
      ELSE [rows |-> <<>>, prev |-> Prev]

writeSectionChunk_FileFirst(SC, Prev) ==
  LET Name    == Chunks[SC].name
      emitted == NameChanged(Name, Prev)
  IN  IF ~HasFile(SC) THEN [rows |-> <<>>, prev |-> Prev]
      ELSE [rows |-> (IF emitted
                      THEN <<writeInSecLine(Chunks[SC].rva, Chunks[SC].size,
                                            Chunks[SC].align, Name)>>
                      ELSE <<>>) \o FileRows(SC),
            prev |-> IF emitted THEN Name ELSE Prev]

writeSectionChunk(SC, Prev) ==
  LET Name    == Chunks[SC].name
      emitted == NameChanged(Name, Prev)
      inRows  == IF emitted
                 THEN <<writeInSecLine(Chunks[SC].rva, Chunks[SC].size,
                                       Chunks[SC].align, Name)>>
                 ELSE <<>>
  IN  [rows |-> inRows \o FileRows(SC),
       prev |-> IF emitted THEN Name ELSE Prev]

----------------------------------------------------------------------------
(* The stream over the temporary file (raw_fd_ostream OS(FD, true)). *)

StreamPath_Destination == MapFilePath

StreamPath == TempPath

(* OS << rows: appended to the file behind FD unless the stream is in the
   error state or this write fails; a failed write sets the error flag. *)
Emit(rows, fail) ==
  IF osError \/ fail \/ rows = <<>>
  THEN /\ fs' = fs
       /\ osError' = (osError \/ (fail /\ rows # <<>>))
  ELSE /\ fs' = [fs EXCEPT ![StreamPath] = File(@.data \o rows)]
       /\ osError' = osError

----------------------------------------------------------------------------
(* writeMapFile *)

Disabled_Never == FALSE

(* MapFile.empty() *)
Disabled == mapFile = ""

(* fatal(Msg), declared in Error.h: it reports the message and ends the
   process; it does not return to writeMapFile, so the destructors of
   writeMapFile's locals (FileRemover RAII) do not run and the file system
   stays as the failed call left it. *)
FsAfterFatal(f) == f

PcAfterCreate_RenameFirst(err) == IF err THEN "fatal" ELSE "rename"

PcAfterCreate(err) == IF err THEN "fatal" ELSE "header"

PcAfterClose_IgnoreError(err) == "rename"

PcAfterClose(err) == IF err THEN "fatal" ELSE "rename"

PcAfterRename(err) == IF err THEN "fatal" ELSE "cleanup"

FreshPrevName_Stale(prev) == prev

FreshPrevName(prev) == ""

PcAfterHeader_EmptyIsError(n) == IF n = 0 THEN "fatal" ELSE "section"

(* The loop over OutputSections: with no section the loop body never runs
   and the stream is closed. *)
PcAfterHeader(n) == IF n = 0 THEN "close" ELSE "section"

SkipChunk_ResetsName(Prev) == [rows |-> <<>>, prev |-> ""]

(* A chunk that is not a SectionChunk: nothing is written, PrevName stays. *)
SkipChunk(Prev) == [rows |-> <<>>, prev |-> Prev]

SectionRows_SkipEmpty(Sec) ==
  IF Len(Sec.chunks) = 0 THEN <<>>
  ELSE <<writeOutSecLine(Sec.rva, Sec.vsize, PageSize, Sec.name)>>

SectionRows(Sec) == <<writeOutSecLine(Sec.rva, Sec.vsize, PageSize, Sec.name)>>

Init ==
  /\ layout \in Layouts
  /\ mapFile \in {"", MapFilePath}
  /\ \E d \in {Absent, OldFile} :
        /\ fs = [p \in {MapFilePath, TempPath} |-> IF p = MapFilePath THEN d ELSE Absent]
        /\ dest0 = d
  /\ pc = "start"
  /\ EC = FALSE
  /\ secIdx = 1
  /\ chunkIdx = 1
  /\ PrevName = ""
  /\ osError = FALSE
  /\ seen = <<>>
  /\ run = 1
  /\ prevReport = <<>>

(* if (MapFile.empty()) return; *)
ReturnIfDisabled ==
  /\ pc = "start" /\ Disabled
  /\ pc' = "done"
  /\ UNCHANGED <<layout, mapFile, EC, fs, secIdx, chunkIdx, PrevName,
                 osError, seen, run, dest0, prevReport>>

(* sys::fs::createUniqueFile; if (EC) fatal(...) *)
CreateUniqueFile ==
  /\ pc = "start" /\ ~Disabled
  /\ \E err \in BOOLEAN :
        /\ fs' = IF err THEN FsAfterFatal(fs)
                 ELSE [fs EXCEPT ![TempPath] = File(<<>>)]
        /\ EC' = err
        /\ pc' = PcAfterCreate(EC')
  /\ UNCHANGED <<layout, mapFile, secIdx, chunkIdx, PrevName,
                 osError, seen, run, dest0, prevReport>>

(* writeMapFile2: the header line. *)
WriteHeader ==
  /\ pc = "header"
  /\ \E fail \in BOOLEAN : Emit(<<HeaderRow>>, fail)
  /\ secIdx' = 1
  /\ chunkIdx' = 1
  /\ pc' = PcAfterHeader(Len(layout))
  /\ UNCHANGED <<layout, mapFile, EC, PrevName, seen, run, dest0, prevReport>>

(* writeMapFile2: one iteration of the loop over OutputSections, up to the
   loop over the section's chunks. *)
WriteSection ==
  /\ pc = "section"
  /\ LET Sec == layout[secIdx]
     IN  /\ \E fail \in BOOLEAN : Emit(SectionRows(Sec), fail)
         /\ PrevName' = FreshPrevName(PrevName)
         /\ chunkIdx' = 1
         /\ IF Len(Sec.chunks) > 0
            THEN pc' = "chunk" /\ secIdx' = secIdx
            ELSE /\ secIdx' = secIdx + 1
                 /\ pc' = IF secIdx = Len(layout) THEN "close" ELSE "section"
  /\ UNCHANGED <<layout, mapFile, EC, seen, run, dest0, prevReport>>

(* writeMapFile2: one iteration of the loop over Sec->getChunks(). *)
WriteChunk ==
  /\ pc = "chunk"
  /\ LET Sec == layout[secIdx]
         C   == Sec.chunks[chunkIdx]
         r   == IF Chunks[C].isSectionChunk
                THEN writeSectionChunk(C, PrevName)
                ELSE SkipChunk(PrevName)
     IN  /\ \E fail \in BOOLEAN : Emit(r.rows, fail)
         /\ PrevName' = r.prev
         /\ IF chunkIdx < Len(Sec.chunks)
            THEN /\ chunkIdx' = chunkIdx + 1
                 /\ UNCHANGED <<secIdx, pc>>
            ELSE /\ chunkIdx' = 1
                 /\ secIdx' = secIdx + 1
                 /\ pc' = IF secIdx = Len(layout) THEN "close" ELSE "section"
  /\ UNCHANGED <<layout, mapFile, EC, seen, run, dest0, prevReport>>

(* End of writeMapFile2: OS goes out of scope.  The destructor of
   raw_fd_ostream flushes, closes FD and, when the stream has an error,
   calls report_fatal_error, which ends the process like fatal(). *)
CloseStream ==
  /\ pc = "close"
  /\ \E fail \in BOOLEAN :
        /\ osError' = (osError \/ fail)
        /\ pc' = PcAfterClose(osError')
  /\ UNCHANGED <<layout, mapFile, EC, fs, secIdx, chunkIdx, PrevName,
                 seen, run, dest0, prevReport>>

(* sys::fs::rename(TempPath, MapFile); if (EC) fatal(...) *)
Rename ==
  /\ pc = "rename"
  /\ \E err \in BOOLEAN :
        /\ fs' = IF err THEN FsAfterFatal(fs)
                 ELSE [fs EXCEPT ![MapFilePath] = fs[TempPath],
                                 ![TempPath] = Absent]
        /\ EC' = err
        /\ pc' = PcAfterRename(EC')
  /\ UNCHANGED <<layout, mapFile, secIdx, chunkIdx, PrevName,
                 osError, seen, run, dest0, prevReport>>

(* Normal return: ~FileRemover removes TempPath if it is still there. *)
RemoveTemp ==
  /\ pc = "cleanup"
  /\ fs' = [fs EXCEPT ![TempPath] = Absent]
  /\ pc' = "done"
  /\ UNCHANGED <<layout, mapFile, EC, secIdx, chunkIdx, PrevName,
                 osError, seen, run, dest0, prevReport>>

(* The linker is run again on the same, unchanged layout. *)
Rerun ==
  /\ pc = "done" /\ run < MaxRuns
  /\ run' = run + 1
  /\ pc' = "start"
  /\ dest0' = fs[MapFilePath]
  /\ prevReport' = <<fs[MapFilePath]>>
  /\ UNCHANGED <<layout, mapFile, EC, fs, secIdx, chunkIdx, PrevName,
                 osError, seen>>

(* Another process reads the destination path. *)
Reader ==
  /\ seen' = <<fs[MapFilePath]>>
  /\ seen' # seen
  /\ UNCHANGED <<layout, mapFile, EC, fs, pc, secIdx, chunkIdx, PrevName,
                 osError, run, dest0, prevReport>>

Next ==
  \/ ReturnIfDisabled
  \/ CreateUniqueFile
  \/ WriteHeader
  \/ WriteSection
  \/ WriteChunk
  \/ CloseStream
  \/ Rename
  \/ RemoveTemp
  \/ Rerun
  \/ Reader

Spec == Init /\ [][Next]_vars

(* The steps of writeMapFile itself.  The call is synchronous and
   single-threaded: while a step is possible the process takes it. *)
Step ==
  \/ ReturnIfDisabled
  \/ CreateUniqueFile
  \/ WriteHeader
  \/ WriteSection
  \/ WriteChunk
  \/ CloseStream
  \/ Rename
  \/ RemoveTemp

FairSpec == Spec /\ WF_vars(Step)

----------------------------------------------------------------------------
(* Vocabulary of the properties. *)

(* The report of a whole, failure-free walk over a layout. *)
RECURSIVE ChunkRows(_, _, _)
ChunkRows(chunks, k, prev) ==
  IF k > Len(chunks) THEN <<>>
  ELSE IF Chunks[chunks[k]].isSectionChunk
       THEN LET r == writeSectionChunk(chunks[k], prev)
            IN  r.rows \o ChunkRows(chunks, k + 1, r.prev)
       ELSE ChunkRows(chunks, k + 1, prev)

RECURSIVE SectionsFrom(_, _)
SectionsFrom(L, i) ==
  IF i > Len(L) THEN <<>>
  ELSE SectionRows(L[i]) \o ChunkRows(L[i].chunks, 1, "") \o SectionsFrom(L, i + 1)

Report(L) == <<HeaderRow>> \o SectionsFrom(L, 1)

(* Nesting depth of a row: 1 section, 2 fragment, 3 file, 4 symbol. *)
Level(row) == IF row.kind = "row" THEN Len(row.cols) ELSE 0

RowName(row) == row.cols[Len(row.cols)]

RECURSIVE IdxOf(_, _, _)
IdxOf(rows, lvl, i) ==
  IF i > Len(rows) THEN <<>>
  ELSE (IF Level(rows[i]) = lvl THEN <<i>> ELSE <<>>) \o IdxOf(rows, lvl, i + 1)

RowsAt(rows, lvl) == [k \in DOMAIN IdxOf(rows, lvl, 1) |-> rows[IdxOf(rows, lvl, 1)[k]]]

(* The rows that follow the i-th section-level row, up to the next one. *)
SectionPart(rows, i) ==
  LET idx == IdxOf(rows, 1, 1)
  IN  SubSeq(rows, idx[i] + 1, IF i < Len(idx) THEN idx[i + 1] - 1 ELSE Len(rows))

(* The symbol-level rows that directly follow position p. *)
RECURSIVE SymbolGroup(_, _)
SymbolGroup(rows, p) ==
  IF p + 1 <= Len(rows) /\ Level(rows[p + 1]) = 4
  THEN <<rows[p + 1]>> \o SymbolGroup(rows, p + 1)
  ELSE <<>>

IsReal(c) == Chunks[c].isSectionChunk

IsFiled(c) == Chunks[c].isSectionChunk /\ Chunks[c].File # NoFile

RealChunks(Sec) == SelectSeq(Sec.chunks, IsReal)

FiledChunks(Sec) == SelectSeq(Sec.chunks, IsFiled)

(* The first fragments of the maximal runs of equal section names. *)
RECURSIVE RunHeads(_, _)
RunHeads(cs, k) ==
  IF k > Len(cs) THEN <<>>
  ELSE (IF k = 1 \/ Chunks[cs[k]].name # Chunks[cs[k - 1]].name THEN <<cs[k]>> ELSE <<>>)
       \o RunHeads(cs, k + 1)

(* The stream over the temporary file was closed without error and the
   rename has not been done: the temporary file holds the whole report. *)
ReportReady == pc = "rename"

TheReport == fs[TempPath].data

Dest == fs[MapFilePath]

InCall == pc \in {"header", "section", "chunk", "close", "rename"}

----------------------------------------------------------------------------
(* C1: from the creation of the temporary file until the rename has been
   done, wherever the process may stop, the destination path holds exactly
   what it held when writeMapFile was called (absent, or its prior
   content): no step before the rename writes to it. *)
C1_DestUntouchedBeforeRename == InCall => Dest = dest0

C1_Witness ==
  /\ pc = "chunk"
  /\ dest0 = OldFile
  /\ Dest = OldFile
  /\ Len(fs[TempPath].data) >= 2

(* C2: a reader of the destination path, at whatever step it reads, sees no
   file, the old complete file or the complete new report, never a strict
   prefix; when the rename is about to be performed the stream is closed
   without error and the temporary file holds every row, and the
   destination changes only by that rename. *)
C2_ReaderNeverSeesPartial ==
  /\ \/ seen = <<>>
     \/ ~seen[1].exists
     \/ seen[1] = OldFile
     \/ seen[1] = File(Report(layout))
  /\ pc = "rename" => ~osError /\ fs[TempPath] = File(Report(layout))
  /\ Dest # dest0 => pc \in {"cleanup", "done"} /\ Dest = File(Report(layout))

C2_Witness ==
  /\ pc = "done"
  /\ run = 1
  /\ dest0 = OldFile
  /\ seen = <<File(Report(layout))>>
  /\ Len(Report(layout)) >= 4

(* C3: after a failure of createUniqueFile or rename the process is in the
   fatal state; a stream in the error state is never closed into the
   rename step; and in the fatal state the destination holds what it held
   before the call, never a partial report. *)
C3_FailureIsFatal ==
  /\ EC => pc = "fatal"
  /\ osError => pc \in {"section", "chunk", "close", "fatal"}
  /\ pc = "fatal" => Dest = dest0
  /\ Dest = dest0 \/ Dest = File(Report(layout))

C3_Witness ==
  /\ pc = "fatal"
  /\ osError
  /\ fs[TempPath].exists
  /\ Len(fs[TempPath].data) >= 2
  /\ fs[TempPath].data # Report(layout)
  /\ Dest = dest0

(* C4: in the finished report, the fragment-level rows of each section are
   exactly the first fragments of the maximal runs of equal section names
   among the section's real fragments, in order: one row per run. *)
C4_OneFragmentRowPerRun ==
  ReportReady =>
    \A i \in DOMAIN layout :
      LET rows  == RowsAt(SectionPart(TheReport, i), 2)
          heads == RunHeads(RealChunks(layout[i]), 1)
      IN  /\ Len(rows) = Len(heads)
          /\ \A k \in DOMAIN heads :
                /\ rows[k].addr = Chunks[heads[k]].rva
                /\ rows[k].size = Chunks[heads[k]].size
                /\ RowName(rows[k]) = Chunks[heads[k]].name

C4_Witness ==
  /\ ReportReady
  /\ \E i \in DOMAIN layout :
        /\ Len(RealChunks(layout[i])) = 3
        /\ Len(RunHeads(RealChunks(layout[i]), 1)) = 2
        /\ Len(RowsAt(SectionPart(TheReport, i), 2)) = 2

(* C5: the first real fragment of every section has a fragment-level row,
   which is the first row after the section's row, whatever the previous
   section ended with. *)
C5_DedupResetsPerSection ==
  ReportReady =>
    \A i \in DOMAIN layout :
      RealChunks(layout[i]) # <<>> =>
        LET part  == SectionPart(TheReport, i)
            first == RealChunks(layout[i])[1]
        IN  /\ part # <<>>
            /\ Level(part[1]) = 2
            /\ part[1].addr = Chunks[first].rva
            /\ RowName(part[1]) = Chunks[first].name

C5_Witness ==
  /\ ReportReady
  /\ Len(layout) = 2
  /\ RealChunks(layout[1]) # <<>>
  /\ RealChunks(layout[2]) # <<>>
  /\ Chunks[RealChunks(layout[1])[Len(RealChunks(layout[1]))]].name
       = Chunks[RealChunks(layout[2])[1]].name
  /\ Len(RowsAt(SectionPart(TheReport, 2), 2)) >= 1

(* C6: the file-level rows of each section are, in order, one row for every
   real fragment of the section that has an owning file, suppressed
   fragment-level row or not. *)
C6_OneFileRowPerFragment ==
  ReportReady =>
    \A i \in DOMAIN layout :
      LET rows == RowsAt(SectionPart(TheReport, i), 3)
          fc   == FiledChunks(layout[i])
      IN  /\ Len(rows) = Len(fc)
          /\ \A k \in DOMAIN fc :
                /\ rows[k].addr = Chunks[fc[k]].rva
                /\ rows[k].size = Chunks[fc[k]].size
                /\ RowName(rows[k]) = Chunks[fc[k]].File

C6_Witness ==
  /\ ReportReady
  /\ \E i \in DOMAIN layout :
        /\ layout[i].chunks = <<1, 2>>
        /\ Len(RowsAt(SectionPart(TheReport, i), 2)) = 1
        /\ Len(RowsAt(SectionPart(TheReport, i), 3)) = 2

(* C7: under the file-level row of a fragment F owned by file X, a symbol S
   of X's symbol list has a symbol-level row if and only if S is a regular
   defined symbol, S's chunk is F itself and S is no section definition. *)
C7_SymbolRowIff ==
  ReportReady =>
    \A i \in DOMAIN layout :
      LET part == SectionPart(TheReport, i)
          fidx == IdxOf(part, 3, 1)
          fc   == FiledChunks(layout[i])
      IN  /\ Len(fidx) = Len(fc)
          /\ \A k \in DOMAIN fc :
                LET G    == SymbolGroup(part, fidx[k])
                    syms == Symbols[Chunks[fc[k]].File]
                IN  \A j \in DOMAIN syms :
                      (\E g \in DOMAIN G : /\ RowName(G[g]) = syms[j].name
                                           /\ G[g].addr = syms[j].rva)
                      <=> /\ syms[j].isDefinedRegular
                          /\ syms[j].chunk = fc[k]
                          /\ ~syms[j].isSectionDefinition

C7_Witness ==
  /\ ReportReady
  /\ \E i \in DOMAIN layout :
        /\ layout[i].chunks = <<1, 2>>
        /\ Len(SymbolGroup(SectionPart(TheReport, i), 2)) = 2
        /\ Len(SymbolGroup(SectionPart(TheReport, i), 5)) = 1

(* C8: every symbol-level row carries the address of its symbol, the size
   of the fragment it is listed under and align 0. *)
C8_SymbolRowFields ==
  ReportReady =>
    \A i \in DOMAIN layout :
      LET part == SectionPart(TheReport, i)
          fidx == IdxOf(part, 3, 1)
          fc   == FiledChunks(layout[i])
      IN  /\ Len(fidx) = Len(fc)
          /\ Len(IdxOf(part, 4, 1)) > 0 => Len(fidx) > 0
          /\ \A k \in DOMAIN fc :
                LET G    == SymbolGroup(part, fidx[k])
                    syms == Symbols[Chunks[fc[k]].File]
                IN  \A g \in DOMAIN G :
                      /\ G[g].size = Chunks[fc[k]].size
                      /\ G[g].align = 0
                      /\ \E j \in DOMAIN syms : /\ syms[j].name = RowName(G[g])
                                                /\ syms[j].rva = G[g].addr

C8_Witness ==
  /\ ReportReady
  /\ \E i \in DOMAIN layout :
       \E p \in DOMAIN SectionPart(TheReport, i) :
          /\ Level(SectionPart(TheReport, i)[p]) = 4
          /\ SectionPart(TheReport, i)[p].size = 14
          /\ SectionPart(TheReport, i)[p].addr = 2101253

(* C9: the finished report has one section-level row per section of the
   list, in order, also for sections without chunks. *)
C9_OneRowPerSection ==
  ReportReady =>
    LET rows == RowsAt(TheReport, 1)
    IN  /\ Len(rows) = Len(layout)
        /\ \A i \in DOMAIN layout : /\ RowName(rows[i]) = layout[i].name
                                    /\ rows[i].addr = layout[i].rva

C9_Witness ==
  /\ ReportReady
  /\ Len(layout) = 2
  /\ layout[1].chunks = <<>>
  /\ layout[2].chunks # <<>>
  /\ Len(RowsAt(TheReport, 1)) = 2

(* C10: a second run over the same layout writes the same rows as the run
   before it. *)
C10_Deterministic ==
  ReportReady /\ run > 1 => fs[TempPath] = prevReport[1]

C10_Witness ==
  /\ ReportReady
  /\ run = 2
  /\ Len(TheReport) >= 5
  /\ fs[TempPath] = prevReport[1]

(* C11: with an empty map-file path writeMapFile returns at once: no
   temporary file exists at any time, no row is written, the destination
   is as it was, no error code and no stream error is raised and the fatal
   state is not reached. *)
C11_DisabledIsNoOp ==
  mapFile = "" =>
    /\ pc \in {"start", "done"}
    /\ fs[TempPath] = Absent
    /\ Dest = dest0
    /\ ~EC
    /\ ~osError

C11_Witness ==
  /\ mapFile = ""
  /\ pc = "done"
  /\ run = 2
  /\ Dest = OldFile
  /\ fs[TempPath] = Absent

(* C12: the first line of the report is the header line and the second
   line is the separator of 65 '=' characters shown in the header comment
   of MapFile.cpp, before the first section row. *)
C12_SeparatorAfterHeader ==
  ReportReady =>
    LET t == Text(TheReport)
    IN  /\ Len(t) >= 2
        /\ t[1] = "Address  Size     Align Out     In      File    Symbol"
        /\ t[2] = "================================================================="

(* The layout of the example in the header comment of MapFile.cpp: one
   section .text at 0x00201000 of size 0x15 with the one fragment .text of
   test.o at 0x00201000, size 0xe, align 4, and the symbols local and
   f(int). *)
ExampleLayout == <<OutputSection(1, <<1>>)>>

ExampleText ==
  <<"Address  Size     Align Out     In      File    Symbol",
    "=================================================================",
    "00201000 00000015     4 .text",
    "00201000 0000000e     4         .text",
    "00201000 0000000e     4                 test.o",
    "0020100e 00000000     0                         local",
    "00201005 00000000     0                         f(int)">>

(* C13: for the layout of the example the report is the example, line for
   line and character for character. *)
C13_ExampleReproduced ==
  ReportReady /\ layout = ExampleLayout => Text(TheReport) = ExampleText

(* A row with every name field but the last padded to 7 columns and the
   last name field as it is. *)
LastFieldUnpadded(row) ==
  format_hex_no_prefix(row.addr, 8) \o " "
    \o format_hex_no_prefix(row.size, 8) \o " "
    \o format_5x(row.align)
    \o NameColumns(SubSeq(row.cols, 1, Len(row.cols) - 1), 1)
    \o (IF Len(row.cols) > 1 THEN " " ELSE "")
    \o row.cols[Len(row.cols)]

(* C14: in every row the name fields before the last are padded to the
   fixed width and the last field is written unpadded, so the line ends
   right after the name. *)
C14_LastFieldUnpadded ==
  ReportReady =>
    \A k \in DOMAIN TheReport :
      TheReport[k].kind = "row" => LineText(TheReport[k]) = LastFieldUnpadded(TheReport[k])

(* What writeMapFile2 writes for the layout of the example. *)
ExampleAsWritten ==
  <<"Address  Size     Align Out     In      File    Symbol",
    "00201000 00000015  1000 .text  ",
    "00201000 0000000e     4         .text  ",
    "00201000 0000000e     4                 test.o ",
    "0020100e 0000000e     0                         local  ",
    "00201005 0000000e     0                         f(int) ">>

ExampleAsWrittenHolds ==
  ReportReady /\ layout = ExampleLayout => Text(TheReport) = ExampleAsWritten

(* C15: once writeMapFile has ended, by the return after a successful
   rename or in the fatal state, no file is left at the temporary path, and
   after the successful return the destination holds the report. *)
C15_TempRemovedOnEveryExit ==
  /\ pc \in {"done", "fatal"} => ~fs[TempPath].exists
  /\ pc = "done" /\ mapFile # "" => Dest = File(Report(layout))

(* The part of C15 that the code has: the normal return leaves no temporary
   file, and the FileRemover finds nothing to delete after the rename. *)
TempRemovedOnReturn ==
  /\ pc \in {"cleanup", "done"} => ~fs[TempPath].exists
  /\ pc = "done" /\ mapFile # "" => Dest = File(Report(layout))

(* The rows in input order, built from the layout alone. *)
Row(Address, Size, Align, cols) ==
  [kind |-> "row", addr |-> Address, size |-> Size, align |-> Align, cols |-> cols]

Qualifies(sym) == sym.isDefinedRegular /\ ~sym.isSectionDefinition

RECURSIVE OrderedSymbols(_, _, _)
OrderedSymbols(syms, j, c) ==
  IF j > Len(syms) THEN <<>>
  ELSE (IF Qualifies(syms[j]) /\ syms[j].chunk = c
        THEN <<Row(syms[j].rva, Chunks[c].size, 0, <<"", "", "", syms[j].name>>)>>
        ELSE <<>>)
       \o OrderedSymbols(syms, j + 1, c)

RECURSIVE OrderedFragments(_, _)
OrderedFragments(real, k) ==
  IF k > Len(real) THEN <<>>
  ELSE LET c == real[k]
       IN  (IF k = 1 \/ Chunks[c].name # Chunks[real[k - 1]].name
            THEN <<Row(Chunks[c].rva, Chunks[c].size, Chunks[c].align,
                       <<"", Chunks[c].name>>)>>
            ELSE <<>>)
           \o (IF Chunks[c].File = NoFile THEN <<>>
               ELSE <<Row(Chunks[c].rva, Chunks[c].size, Chunks[c].align,
                          <<"", "", Chunks[c].File>>)>>
                    \o OrderedSymbols(Symbols[Chunks[c].File], 1, c))
           \o OrderedFragments(real, k + 1)

RECURSIVE OrderedSections(_, _)
OrderedSections(L, i) ==
  IF i > Len(L) THEN <<>>
  ELSE <<Row(L[i].rva, L[i].vsize, PageSize, <<L[i].name>>)>>
       \o OrderedFragments(RealChunks(L[i]), 1)
       \o OrderedSections(L, i + 1)

(* C16: the finished report is the header, then for each section in list
   order its row, then for each real fragment in chunk order its
   fragment-level row (unless suppressed), its file-level row and its
   symbol rows in the order of the file's symbol list. *)
C16_RowsInInputOrder ==
  ReportReady => TheReport = <<HeaderRow>> \o OrderedSections(layout, 1)

C16_Witness ==
  /\ ReportReady
  /\ Len(layout) = 2
  /\ layout[1].chunks = <<3, 5>>
  /\ layout[2].chunks = <<1>>
  /\ Len(TheReport) = 9
  /\ RowName(TheReport[8]) = "local"
  /\ RowName(TheReport[9]) = "f(int)"

(* Row p of a section's part is the row of the given level written for
   chunk c (fragment and file rows carry the chunk's own address). *)
IsRowOf(part, p, lvl, c) ==
  /\ Level(part[p]) = lvl
  /\ part[p].addr = Chunks[c].rva

(* C17: a real fragment without owning file has no file-level and no
   symbol-level row; it has a fragment-level row exactly when its name
   differs from the name of the real fragment before it (or it is the
   first), and it counts as the previous fragment for the next one: a
   following real fragment of the same name has no fragment-level row. *)
C17_FilelessFragment ==
  ReportReady =>
    \A i \in DOMAIN layout :
      LET part == SectionPart(TheReport, i)
          real == RealChunks(layout[i])
      IN  \A k \in DOMAIN real :
            Chunks[real[k]].File = NoFile =>
              /\ \A p \in DOMAIN part :
                    /\ ~IsRowOf(part, p, 3, real[k])
                    /\ IsRowOf(part, p, 2, real[k]) /\ p < Len(part)
                         => /\ Level(part[p + 1]) # 4
                            /\ Level(part[p + 1]) = 3
                                 => k < Len(real) /\ IsRowOf(part, p + 1, 3, real[k + 1])
              /\ (\E p \in DOMAIN part : IsRowOf(part, p, 2, real[k]))
                   <=> (k = 1 \/ Chunks[real[k - 1]].name # Chunks[real[k]].name)
              /\ k < Len(real) /\ Chunks[real[k + 1]].name = Chunks[real[k]].name
                   => \A p \in DOMAIN part : ~IsRowOf(part, p, 2, real[k + 1])

C17_Witness ==
  /\ ReportReady
  /\ \E i \in DOMAIN layout :
        /\ layout[i].chunks = <<4, 1>>
        /\ Len(SectionPart(TheReport, i)) = 4
        /\ IsRowOf(SectionPart(TheReport, i), 1, 2, 4)
        /\ IsRowOf(SectionPart(TheReport, i), 2, 3, 1)

(* The layout without its synthetic chunks. *)
Stripped(L) == [i \in DOMAIN L |-> [L[i] EXCEPT !.chunks = RealChunks(L[i])]]

(* C18: a chunk that is not a SectionChunk has no fragment-level or
   file-level row, and the report is the one of the layout without the
   synthetic chunks: they do not touch the previous-name state, so equal
   names around them form one run. *)
C18_SyntheticChunksSkipped ==
  ReportReady =>
    /\ \A i \in DOMAIN layout :
         \A k \in DOMAIN layout[i].chunks :
            ~Chunks[layout[i].chunks[k]].isSectionChunk =>
               \A p \in DOMAIN SectionPart(TheReport, i) :
                  /\ ~IsRowOf(SectionPart(TheReport, i), p, 2, layout[i].chunks[k])
                  /\ ~IsRowOf(SectionPart(TheReport, i), p, 3, layout[i].chunks[k])
    /\ TheReport = Report(Stripped(layout))

C18_Witness ==
  /\ ReportReady
  /\ \E i \in DOMAIN layout :
        /\ layout[i].chunks = <<1, 5, 2>>
        /\ Len(RowsAt(SectionPart(TheReport, i), 2)) = 1
        /\ Len(RowsAt(SectionPart(TheReport, i), 3)) = 2

(* The real fragments listed in a layout. *)
ListedReal(L) ==
  {c \in UNION {{L[i].chunks[k] : k \in DOMAIN L[i].chunks} : i \in DOMAIN L} :
     IsReal(c)}

(* The qualifying symbols (file, position) whose fragment is a listed real
   fragment owned by the file. *)
ReportedSymbols(L) ==
  UNION {{<<f, j>> : j \in {j \in DOMAIN Symbols[f] :
                              /\ Qualifies(Symbols[f][j])
                              /\ Symbols[f][j].chunk \in ListedReal(L)
                              /\ Chunks[Symbols[f][j].chunk].File = f}} :
         f \in DOMAIN Symbols}

(* C19: a symbol row stands only under the fragment its symbol is defined
   in, no symbol has two rows, and the number of symbol rows is the number
   of qualifying symbols whose fragment is a listed real fragment of their
   file. *)
C19_SymbolReportedOnce ==
  ReportReady =>
    /\ Len(RowsAt(TheReport, 4)) = Cardinality(ReportedSymbols(layout))
    /\ \A p, q \in DOMAIN TheReport :
          /\ Level(TheReport[p]) = 4
          /\ Level(TheReport[q]) = 4
          /\ RowName(TheReport[p]) = RowName(TheReport[q])
          => p = q
    /\ \A i \in DOMAIN layout :
         LET part == SectionPart(TheReport, i)
             fidx == IdxOf(part, 3, 1)
             fc   == FiledChunks(layout[i])
         IN  /\ Len(fidx) = Len(fc)
             /\ \A k \in DOMAIN fc :
                   LET G    == SymbolGroup(part, fidx[k])
                       syms == Symbols[Chunks[fc[k]].File]
                   IN  \A g \in DOMAIN G :
                         \A j \in DOMAIN syms :
                            syms[j].name = RowName(G[g]) => syms[j].chunk = fc[k]

C19_Witness ==
  /\ ReportReady
  /\ {1, 2} \subseteq ListedReal(layout)
  /\ Len(layout) = 2
  /\ layout[1].chunks = <<2>>
  /\ Len(RowsAt(TheReport, 4)) = 3

(* C20: the fatal state is reached only after a file-system failure
   (createUniqueFile, a write, the close or the rename), whatever the
   layout; the call always ends; and when it ends without failure and the
   map file is enabled, the destination holds a report that begins with
   the header row. *)
C20_OnlyIoFailuresAreFatal ==
  /\ [](pc = "fatal" => EC \/ osError)
  /\ [](pc = "done" /\ mapFile # ""
          => /\ Dest.exists
             /\ Len(Dest.data) >= 1
             /\ Dest.data[1] = HeaderRow
             /\ Len(RowsAt(Dest.data, 1)) = Len(layout))
  /\ <>(pc \in {"done", "fatal"})

C20_Witness ==
  /\ pc = "done"
  /\ mapFile # ""
  /\ Len(layout) = 2
  /\ layout[1].chunks = <<>>
  /\ layout[2].chunks = <<4, 3>>
  /\ Len(Dest.data) = 6

C20_WitnessEmptyLayout ==
  /\ pc = "done"
  /\ mapFile # ""
  /\ layout = <<>>
  /\ Dest = File(<<HeaderRow>>)

====
